---- MODULE Spec2Model ----
(***************************************************************************)
(* A model of src/lang_c.rs: the translation of Rust FFI declarations into *)
(* C headers (LangC), the per-module header assignment (header_name), the  *)
(* include-guard identifier (sanitise_id) and the linking step             *)
(* (finalise_output).                                                      *)
(*                                                                         *)
(* Text.  A Rust String that is only ever built by concatenation and       *)
(* compared is a TLA+ string (\o concatenates).  A String whose characters *)
(* the code inspects (module path segments, library names, header ids:     *)
(* sanitise_id filters them) is a sequence of one-character strings, and   *)
(* Cat turns it into a string where the code formats it into text.  The    *)
(* text buffer of a header is the sequence of the pieces pushed onto it,   *)
(* in order; the header's text is the concatenation of the pieces.         *)
(***************************************************************************)
EXTENDS Integers, Sequences, FiniteSets, TLC

VARIABLES
    lib_name,   \* LangC.lib_name
    decls,      \* LangC.decls : type name -> header id   (the TypeRegistry)
    deps,       \* LangC.deps  : header id -> Vec of referenced type names
    outputs,    \* Outputs     : header id -> text buffer
    last,       \* the last call made on LangC and what it returned
    ncalls,     \* number of calls made so far
    finalised,  \* finalise_output has been called
    emitted,    \* history: the declarations appended to Outputs so far
    runA,       \* SpecOrder: a generation run over a set of declarations
    runB,       \* SpecOrder: a second run over the same declarations
    fn_in,      \* SpecHeader, SpecSanitise: the input of the function
    fn_out,     \* SpecHeader, SpecSanitise: its result
    fn_out2,    \* SpecSanitise: the result of sanitising the result
    pc          \* SpecHeader, SpecSanitise: position

vars == <<lib_name, decls, deps, outputs, last, ncalls, finalised, emitted,
          runA, runB, fn_in, fn_out, fn_out2, pc>>

mainVars == <<lib_name, decls, deps, outputs, last, ncalls, finalised, emitted>>
fnVars == <<fn_in, fn_out, fn_out2, pc>>

-----------------------------------------------------------------------------
(* Characters and strings *)

\* char::to_digit for the ASCII characters: '0'..'9' are 0..9, letters of
\* either case are 10..35
DigitChars == <<"0", "1", "2", "3", "4", "5", "6", "7", "8", "9">>
LowerChars == <<"a", "b", "c", "d", "e", "f", "g", "h", "i", "j", "k", "l", "m",
                "n", "o", "p", "q", "r", "s", "t", "u", "v", "w", "x", "y", "z">>
UpperChars == <<"A", "B", "C", "D", "E", "F", "G", "H", "I", "J", "K", "L", "M",
                "N", "O", "P", "Q", "R", "S", "T", "U", "V", "W", "X", "Y", "Z">>

IndexOf(seq, x) ==
    IF \E i \in DOMAIN seq : seq[i] = x
    THEN CHOOSE i \in DOMAIN seq : seq[i] = x
    ELSE 0

\* the value of ch as a digit, or -1 when it is none
to_digit_value(ch) ==
    IF IndexOf(DigitChars, ch) > 0 THEN IndexOf(DigitChars, ch) - 1
    ELSE IF IndexOf(LowerChars, ch) > 0 THEN IndexOf(LowerChars, ch) + 9
    ELSE IF IndexOf(UpperChars, ch) > 0 THEN IndexOf(UpperChars, ch) + 9
    ELSE -1

is_digit(ch, radix) == to_digit_value(ch) >= 0 /\ to_digit_value(ch) < radix

\* String::from of a sequence of characters
RECURSIVE Cat(_)
Cat(cs) == IF cs = <<>> THEN "" ELSE Head(cs) \o Cat(Tail(cs))

\* [String].join(sep) on sequences of characters
RECURSIVE JoinChars(_, _)
JoinChars(segs, sep) ==
    IF segs = <<>> THEN <<>>
    ELSE IF Len(segs) = 1 THEN segs[1]
    ELSE segs[1] \o sep \o JoinChars(Tail(segs), sep)

\* [String].join(sep) on strings
RECURSIVE JoinStr(_, _)
JoinStr(strs, sep) ==
    IF strs = <<>> THEN ""
    ELSE IF Len(strs) = 1 THEN strs[1]
    ELSE strs[1] \o sep \o JoinStr(Tail(strs), sep)

-----------------------------------------------------------------------------
(* sanitise_id, header_name, wrap_extern, wrap_guard *)

SanitiseRadix == 36

sanitise_keep_decimal(ch) == is_digit(ch, 10) \/ ch = "_"

\* the filter of sanitise_id
sanitise_keep(ch) == is_digit(ch, SanitiseRadix) \/ ch = "_"

sanitise_id(id) == SelectSeq(id, sanitise_keep)

ffi == <<"f", "f", "i">>
MAIN_SEPARATOR == <<"/">>
DotH == <<".", "h">>

ModuleNameNoPush(module, lib) ==
    IF module[1] = ffi THEN <<lib>> \o Tail(module) ELSE module

\* the module_name vector of header_name after its rewriting
ModuleName(module, lib) ==
    IF module[1] = ffi
    THEN LET replaced == <<lib>> \o Tail(module)
         IN IF Len(replaced) = 1 THEN replaced \o <<lib>> ELSE replaced
    ELSE module

\* header_name never returns Err: its value is the header id
header_name(module, lib) == JoinChars(ModuleName(module, lib), MAIN_SEPARATOR) \o DotH

\* the format string of wrap_extern, cut at its lines; code stands at {}
ExternOpen == "#ifdef __cplusplus\nextern \"C\" {\n#endif\n"
ExternClose == "#ifdef __cplusplus\n}\n#endif\n"

wrap_extern(code) == <<"\n", ExternOpen, "\n">> \o code \o <<"\n\n", ExternClose>>

\* the format string of wrap_guard, cut at its lines; {0} is sanitise_id(id)
\* and code stands at {1}
GuardIfndef(id) == "#ifndef bindgen_" \o Cat(sanitise_id(id)) \o "\n"
GuardDefine(id) == "#define bindgen_" \o Cat(sanitise_id(id)) \o "\n"
GuardEndif == "#endif\n"

wrap_guard(code, id) ==
    <<"\n", GuardIfndef(id), GuardDefine(id), "\n ">> \o code \o <<"\n\n", GuardEndif>>

-----------------------------------------------------------------------------
(* Result<T, Error>.  The messages are those of the source, with its       *)
(* backquotes written as apostrophes.                                      *)

Ok(v) == [ok |-> TRUE, v |-> v]
Err(level, message) == [ok |-> FALSE, level |-> level, message |-> message]

MsgWrongItemTy == "'parse_ty' called on wrong 'Item_'"
MsgWrongItemEnum == "'parse_enum' called on wrong 'Item_'"
MsgWrongItemStruct == "'parse_struct' called on wrong 'Item_'"
MsgWrongItemFn == "'parse_fn' called on wrong 'Item_'"
MsgGenericEnum == "bindgen can not handle parameterized '#[repr(C)]' enums"
MsgNonUnitVariant == "bindgen can not handle '#[repr(C)]' enums with non-unit variants"
MsgGenericStruct == "bindgen can not handle parameterized '#[repr(C)]' structs"
MsgUnitOrTuple == "bindgen can not handle unit or tuple '#[repr(C)]' structs with >1 members"
MsgGenericFn == "bindgen can not handle parameterized extern functions"
MsgNever == "panics across a C boundary are naughty!"
MsgUnnamedFnPtr == "C function pointers must have a name or function declaration associated with them"
MsgLifetimes == "bindgen can not handle lifetimes"
MsgInvalidType == "invalid type"
MsgOtherModule == "bindgen can not handle types in other modules (except 'libc' and 'std::os::raw')"
MsgCanNotHandle(printed) == "bindgen can not handle the type '" \o printed \o "'"

-----------------------------------------------------------------------------
(* The syntax tree of a type (ast::Ty) and of a return type                *)
(* (ast::FunctionRetTy), as far as lang_c.rs distinguishes them            *)

TyPath(segments) == [node |-> "Path", segments |-> segments]
TyPtr(mutbl, ty) == [node |-> "Ptr", mutbl |-> mutbl, ty |-> ty]
TyArray(ty) == [node |-> "Array", ty |-> ty]
TyBareFn(lifetimes, inputs, output) ==
    [node |-> "BareFn", lifetimes |-> lifetimes, inputs |-> inputs, output |-> output]
TyNever == [node |-> "Never"]
TyTup(elems) == [node |-> "Tup", elems |-> elems]
TyRptr(ty) == [node |-> "Rptr", ty |-> ty]

RetDefault == [ret |-> "Default"]
RetTy(ty) == [ret |-> "Ty", ty |-> ty]

Arg(pat, ty) == [pat |-> pat, ty |-> ty]

\* pprust::ty_to_string, for the types that reach the last arm of
\* anon_rust_to_c and the types inside them
RECURSIVE ty_to_string(_)
ty_to_string(ty) ==
    CASE ty.node = "Tup" ->
            "(" \o JoinStr([i \in DOMAIN ty.elems |-> ty_to_string(ty.elems[i])], ", ") \o ")"
      [] ty.node = "Never" -> "!"
      [] ty.node = "Rptr" -> "&" \o ty_to_string(ty.ty)
      [] ty.node = "Path" -> JoinStr(ty.segments, "::")
      [] ty.node = "Ptr" ->
            (IF ty.mutbl = "Mutable" THEN "*mut " ELSE "*const ") \o ty_to_string(ty.ty)
      [] OTHER -> "_"

-----------------------------------------------------------------------------
(* CType, CPtrType, CTypeNamed *)

Void == [t |-> "Void"]
Mapping(s) == [t |-> "Mapping", s |-> s]
Native(s) == [t |-> "Native", s |-> s]
Ptr(cty, ptrty) == [t |-> "Ptr", cty |-> cty, ptrty |-> ptrty]
FnDecl(inner, args, return_type) ==
    [t |-> "FnDecl", inner |-> inner, args |-> args, return_type |-> return_type]

CTypeNamed(name, cty) == [name |-> name, cty |-> cty]

DisplayPtrTypeNoConst(ptrty) == ""

\* Display for CPtrType
DisplayPtrType(ptrty) == IF ptrty = "Const" THEN " const" ELSE ""

\* Display for CType and for CTypeNamed
RECURSIVE DisplayCType(_), DisplayNamed(_)
DisplayCType(cty) ==
    CASE cty.t = "Void" -> "void"
      [] cty.t = "Mapping" -> cty.s
      [] cty.t = "Native" -> cty.s
      [] cty.t = "Ptr" -> DisplayCType(cty.cty) \o DisplayPtrType(cty.ptrty) \o "*"
      [] cty.t = "FnDecl" ->
            DisplayCType(cty.return_type) \o " (*" \o cty.inner \o ")("
            \o (IF cty.args = <<>> THEN "void"
                ELSE JoinStr([i \in DOMAIN cty.args |-> DisplayNamed(cty.args[i])], ", "))
            \o ")"

DisplayNamed(named) ==
    IF named.cty.t = "FnDecl" THEN DisplayCType(named.cty)
    ELSE DisplayCType(named.cty) \o " " \o named.name

\* Vec concatenation of a sequence of Vecs
RECURSIVE Flatten(_)
Flatten(seqs) == IF seqs = <<>> THEN <<>> ELSE Head(seqs) \o Flatten(Tail(seqs))

\* CType::dependencies
RECURSIVE dependencies(_)
dependencies(cty) ==
    CASE cty.t = "FnDecl" ->
            dependencies(cty.return_type)
            \o Flatten([i \in DOMAIN cty.args |-> dependencies(cty.args[i].cty)])
      [] cty.t = "Ptr" -> dependencies(cty.cty)
      [] cty.t = "Mapping" -> <<cty.s>>
      [] OTHER -> <<>>

-----------------------------------------------------------------------------
(* The type mapper: rust_to_c and the functions under it *)

\* the arms of a match on a type name: <<name, CType>>
LibcTable ==
    << <<"c_void", Void>>, <<"c_float", Native("float")>>, <<"c_double", Native("double")>>,
       <<"c_char", Native("char")>>, <<"c_schar", Native("signed char")>>,
       <<"c_uchar", Native("unsigned char")>>, <<"c_short", Native("short")>>,
       <<"c_ushort", Native("unsigned short")>>, <<"c_int", Native("int")>>,
       <<"c_uint", Native("unsigned int")>>, <<"c_long", Native("long")>>,
       <<"c_ulong", Native("unsigned long")>>, <<"c_longlong", Native("long long")>>,
       <<"c_ulonglong", Native("unsigned long long")>> >>

OsrawTable ==
    << <<"c_void", Void>>, <<"c_char", Native("char")>>, <<"c_double", Native("double")>>,
       <<"c_float", Native("float")>>, <<"c_int", Native("int")>>, <<"c_long", Native("long")>>,
       <<"c_longlong", Native("long long")>>, <<"c_schar", Native("signed char")>>,
       <<"c_short", Native("short")>>, <<"c_uchar", Native("unsigned char")>>,
       <<"c_uint", Native("unsigned int")>>, <<"c_ulong", Native("unsigned long")>>,
       <<"c_ulonglong", Native("unsigned long long")>>,
       <<"c_ushort", Native("unsigned short")>> >>

RustTable ==
    << <<"()", Void>>, <<"f32", Native("float")>>, <<"f64", Native("double")>>,
       <<"i8", Native("int8_t")>>, <<"i16", Native("int16_t")>>, <<"i32", Native("int32_t")>>,
       <<"i64", Native("int64_t")>>, <<"isize", Native("intptr_t")>>,
       <<"u8", Native("uint8_t")>>, <<"u16", Native("uint16_t")>>,
       <<"u32", Native("uint32_t")>>, <<"u64", Native("uint64_t")>>,
       <<"usize", Native("uintptr_t")>>, <<"bool", Native("bool")>> >>

\* the first arm of the table that matches ty, or the fall-through arm
MatchArm(table, ty, otherwise) ==
    IF \E i \in DOMAIN table : table[i][1] = ty
    THEN table[CHOOSE i \in DOMAIN table :
                   table[i][1] = ty /\ \A j \in 1..(i - 1) : table[j][1] # ty][2]
    ELSE otherwise

libc_ty_to_c(ty) == MatchArm(LibcTable, ty, Mapping(ty))
osraw_ty_to_c(ty) == MatchArm(OsrawTable, ty, Mapping(ty))

rust_ty_to_c_no_libc(ty) == MatchArm(RustTable, ty, Mapping(ty))

rust_ty_to_c(ty) == MatchArm(RustTable, ty, libc_ty_to_c(ty))

path_to_c_last_segment(path) ==
    IF path.segments = <<>> THEN Err("Bug", MsgInvalidType)
    ELSE Ok(rust_ty_to_c(path.segments[Len(path.segments)]))

path_to_c(path) ==
    IF path.segments = <<>> THEN Err("Bug", MsgInvalidType)
    ELSE IF Len(path.segments) > 1
    THEN LET ty == path.segments[Len(path.segments)]
             module == JoinStr(SubSeq(path.segments, 1, Len(path.segments) - 1), "::")
         IN CASE module = "libc" -> Ok(libc_ty_to_c(ty))
              [] module = "std::os::raw" -> Ok(osraw_ty_to_c(ty))
              [] OTHER -> Err("Error", MsgOtherModule)
    ELSE Ok(rust_ty_to_c(path.segments[1]))

\* Ok(CTypeNamed(assoc, cty)) of a translated type, or its error (the ? operator)
NamedResult(r, assoc) == IF r.ok THEN Ok(CTypeNamed(assoc, r.v)) ELSE r

\* Ok(CType::Ptr(Box::new(new_type), const_spec)) of a translated pointee, or its error
PtrResult(r, const_spec) == IF r.ok THEN Ok(Ptr(r.v, const_spec)) ELSE r

\* Ok(CType::FnDecl {..}) of a translated return type, or its error
FnDeclResult(r, inner, args) == IF r.ok THEN Ok(FnDecl(inner, args, r.v)) ELSE r

\* the last arm of anon_rust_to_c, on the printed type
VoidOrReject(new_type) ==
    IF new_type = "()" THEN Ok(Void) ELSE Err("Error", MsgCanNotHandle(new_type))

RECURSIVE rust_to_c(_, _), anon_rust_to_c(_), ptr_to_c(_), fn_ptr_to_c(_, _),
          fn_ptr_args(_, _), fn_ptr_arg(_, _, _), fn_ptr_return(_, _, _)

rust_to_c(ty, assoc) ==
    IF ty.node = "BareFn" THEN NamedResult(fn_ptr_to_c(ty, assoc), "")
    ELSE NamedResult(anon_rust_to_c(ty), assoc)

anon_rust_to_c(ty) ==
    CASE ty.node = "BareFn" -> Err("Error", MsgUnnamedFnPtr)
      [] ty.node = "Array" -> PtrResult(anon_rust_to_c(ty.ty), "Const")
      [] ty.node = "Ptr" -> ptr_to_c(ty)
      [] ty.node = "Path" -> path_to_c(ty)
      [] OTHER -> VoidOrReject(ty_to_string(ty))

ptr_to_c(ty) ==
    PtrResult(anon_rust_to_c(ty.ty), IF ty.mutbl = "Immutable" THEN "Const" ELSE "Mutable")

\* the loop of fn_ptr_to_c over fn_decl.inputs: the arguments translated so
\* far are args; the first failure is returned
fn_ptr_args(inputs, args) ==
    IF inputs = <<>> THEN Ok(args)
    ELSE fn_ptr_arg(rust_to_c(Head(inputs).ty, Head(inputs).pat), Tail(inputs), args)

\* one round of that loop, arg_type being rust_to_c(&*arg.ty, &arg_name)
fn_ptr_arg(arg_type, rest, args) ==
    IF arg_type.ok THEN fn_ptr_args(rest, Append(args, arg_type.v)) ELSE arg_type

fn_ptr_return_never_is_void(args, output, inner) ==
    IF ~args.ok THEN args
    ELSE IF output.ret = "Default" \/ output.ty.node = "Never"
    THEN Ok(FnDecl(inner, args.v, Void))
    ELSE FnDeclResult(anon_rust_to_c(output.ty), inner, args.v)

\* fn_ptr_to_c after its arguments: the match on fn_decl.output
fn_ptr_return(args, output, inner) ==
    IF ~args.ok THEN args
    ELSE IF output.ret = "Ty" /\ output.ty.node = "Never" THEN Err("Error", MsgNever)
    ELSE IF output.ret = "Default" THEN Ok(FnDecl(inner, args.v, Void))
    ELSE FnDeclResult(anon_rust_to_c(output.ty), inner, args.v)

fn_ptr_to_c(fn_ty, inner) ==
    IF fn_ty.lifetimes THEN Err("Error", MsgLifetimes)
    ELSE fn_ptr_return(fn_ptr_args(fn_ty.inputs, <<>>), fn_ty.output, inner)

-----------------------------------------------------------------------------
(* Maps (BTreeMap, HashMap) are functions with a finite domain *)

EmptyMap == <<>>

MapInsertKeepFirst(m, k, v) ==
    IF k \in DOMAIN m THEN m
    ELSE [x \in (DOMAIN m) \cup {k} |-> IF x = k THEN v ELSE m[x]]

\* BTreeMap::insert: the value of an existing key is replaced
MapInsert(m, k, v) == [x \in (DOMAIN m) \cup {k} |-> IF x = k THEN v ELSE m[x]]

Range(seq) == {seq[i] : i \in DOMAIN seq}

-----------------------------------------------------------------------------
(* Declarations (ast::Item) with what parse_attr extracts from their       *)
(* attributes: repr_c is check_repr_c, no_mangle is check_no_mangle, docs  *)
(* is the text retrieve_docstring renders                                  *)

ItemTy(ident, generics, ty) ==
    [node |-> "Ty", ident |-> ident, repr_c |-> FALSE, no_mangle |-> FALSE,
     generics |-> generics, docs |-> "", ty |-> ty]
Variant(name, is_unit) == [name |-> name, is_unit |-> is_unit, docs |-> ""]
ItemEnum(ident, repr_c, generics, variants) ==
    [node |-> "Enum", ident |-> ident, repr_c |-> repr_c, no_mangle |-> FALSE,
     generics |-> generics,
     docs |-> "", variants |-> variants]
Field(ident, ty) == [ident |-> ident, ty |-> ty, docs |-> ""]
\* data is "Struct", "Tuple" or "Unit" (ast::VariantData)
ItemStruct(ident, repr_c, generics, data, fields) ==
    [node |-> "Struct", ident |-> ident, repr_c |-> repr_c, no_mangle |-> FALSE,
     generics |-> generics,
     docs |-> "", data |-> data, fields |-> fields]
ItemFn(ident, no_mangle, abi, generics, inputs, output) ==
    [node |-> "Fn", ident |-> ident, repr_c |-> FALSE, no_mangle |-> no_mangle, abi |-> abi,
     generics |-> generics, docs |-> "", inputs |-> inputs, output |-> output]

\* a declaration as the front end hands it over: the item and its module path
Decl(item, module) == [item |-> item, module |-> module]

-----------------------------------------------------------------------------
(* LangC.  self is the record of its fields; an operation yields the new   *)
(* self, the new Outputs, what it returns (res) and, for the history, the  *)
(* declaration it appended (emit, a set of at most one element)            *)

\* LangC::new
LangC_new == [lib_name |-> <<"b", "a", "c", "k", "e", "n", "d">>,
              decls |-> EmptyMap, deps |-> EmptyMap]

\* LangC::set_lib_name
set_lib_name(self, name) == [self EXCEPT !.lib_name = name]

Call(self, outs, res, emit) == [self |-> self, outputs |-> outs, res |-> res, emit |-> emit]

\* the history record of an appended declaration: kind is "alias", "enum",
\* "struct" or "fn"; refs are the Mapping names in its translated types
Emitted(header, kind, name, refs) ==
    [header |-> header, kind |-> kind, name |-> name, refs |-> refs]

\* common::append_output: push the text onto the header's buffer, creating
\* the buffer when the header has none
append_output(buffer, header, outs) ==
    MapInsert(outs, header,
              IF header \in DOMAIN outs THEN Append(outs[header], buffer) ELSE <<buffer>>)

add_dependencies_overwrite(self, module, cty) ==
    IF dependencies(cty) # <<>>
    THEN [self EXCEPT !.deps = MapInsert(self.deps, header_name(module, self.lib_name),
                                         dependencies(cty))]
    ELSE self

\* the match on self.deps.entry(header) of add_dependencies
DepsExtend(m, header, d) ==
    MapInsert(m, header, IF header \in DOMAIN m THEN m[header] \o d ELSE d)

\* LangC::add_dependencies (it never returns Err: its value is the new self)
add_dependencies(self, module, cty) ==
    IF dependencies(cty) # <<>>
    THEN [self EXCEPT !.deps = DepsExtend(self.deps, header_name(module, self.lib_name),
                                          dependencies(cty))]
    ELSE self

\* LangC::append_to_header
append_to_header(self, buffer, module, outs) ==
    append_output(buffer, header_name(module, self.lib_name), outs)

decls_insert_keep_first(self, name, module) ==
    [self EXCEPT !.decls = MapInsertKeepFirst(self.decls, name,
                                              header_name(module, self.lib_name))]

\* self.decls.insert(name, header_name(module, &self.lib_name)?)
decls_insert(self, name, module) ==
    [self EXCEPT !.decls = MapInsert(self.decls, name, header_name(module, self.lib_name))]

\* parse_ty from the translated type on
parse_ty_emit(self, outs, item, module, new_type) ==
    IF ~new_type.ok THEN Call(self, outs, new_type, {})
    ELSE Call(decls_insert(self, item.ident, module),
              append_to_header(self,
                               item.docs \o "typedef " \o DisplayNamed(new_type.v) \o ";\n\n",
                               module, outs),
              Ok(<<>>),
              {Emitted(header_name(module, self.lib_name), "alias", item.ident,
                       Range(dependencies(new_type.v.cty)))})

\* Lang::parse_ty
parse_ty(self, outs, item, module) ==
    IF item.node # "Ty" THEN Call(self, outs, Err("Bug", MsgWrongItemTy), {})
    ELSE IF item.generics THEN Call(self, outs, Ok(<<>>), {})
    ELSE parse_ty_emit(self, outs, item, module, rust_to_c(item.ty, item.ident))

\* the loop of parse_enum over definition.variants: the text pushed so far
\* is buffer; the first non-unit variant is an error
RECURSIVE enum_variants(_, _, _)
enum_variants(name, variants, buffer) ==
    IF variants = <<>> THEN Ok(buffer)
    ELSE IF ~Head(variants).is_unit THEN Err("Error", MsgNonUnitVariant)
    ELSE enum_variants(name, Tail(variants),
                       buffer \o Head(variants).docs \o "\t" \o name \o "_"
                           \o Head(variants).name \o ",\n")

\* parse_enum from the end of the loop on
parse_enum_emit(self, outs, item, module, body) ==
    IF ~body.ok THEN Call(self, outs, body, {})
    ELSE Call(self,
              append_to_header(self, body.v \o "} " \o item.ident \o ";\n\n", module, outs),
              Ok(<<>>),
              {Emitted(header_name(module, self.lib_name), "enum", item.ident, {})})

\* Lang::parse_enum
parse_enum(self, outs, item, module) ==
    IF ~item.repr_c THEN Call(self, outs, Ok(<<>>), {})
    ELSE IF item.node # "Enum" THEN Call(self, outs, Err("Bug", MsgWrongItemEnum), {})
    ELSE IF item.generics THEN Call(self, outs, Err("Error", MsgGenericEnum), {})
    ELSE parse_enum_emit(self, outs, item, module,
                         enum_variants(item.ident, item.variants,
                                       item.docs \o "typedef enum " \o item.ident \o " {\n"))

\* the loop of parse_struct over variants.fields(): self changes with every
\* field translated (add_dependencies), and the first failure returns with
\* the changes made so far
RECURSIVE struct_fields(_, _, _, _, _), struct_field(_, _, _, _, _, _)
struct_fields(self, module, fields, buffer, refs) ==
    IF fields = <<>> THEN [self |-> self, res |-> Ok(buffer), refs |-> refs]
    ELSE struct_field(self, module, fields, buffer, refs,
                      rust_to_c(Head(fields).ty, Head(fields).ident))

\* one round of that loop, ty being rust_to_c(&*field.ty, &name)
struct_field(self, module, fields, buffer, refs, ty) ==
    IF ~ty.ok THEN [self |-> self, res |-> ty, refs |-> refs]
    ELSE struct_fields(add_dependencies(self, module, ty.v.cty), module, Tail(fields),
                       buffer \o Head(fields).docs \o "\t" \o DisplayNamed(ty.v) \o ";\n",
                       refs \cup Range(dependencies(ty.v.cty)))

parse_struct_emit_registering(outs, item, module, body) ==
    IF ~body.res.ok
    THEN Call(decls_insert(body.self, item.ident, module), outs, body.res, {})
    ELSE Call(decls_insert(body.self, item.ident, module),
              append_to_header(body.self, body.res.v \o "}" \o " " \o item.ident \o ";\n\n",
                               module, outs),
              Ok(<<>>),
              {Emitted(header_name(module, body.self.lib_name), "struct", item.ident,
                       body.refs)})

\* parse_struct of a struct with named fields, from the end of the loop on
parse_struct_emit(outs, item, module, body) ==
    IF ~body.res.ok THEN Call(body.self, outs, body.res, {})
    ELSE Call(decls_insert(body.self, item.ident, module),
              append_to_header(body.self, body.res.v \o "}" \o " " \o item.ident \o ";\n\n",
                               module, outs),
              Ok(<<>>),
              {Emitted(header_name(module, body.self.lib_name), "struct", item.ident,
                       body.refs)})

parse_struct_any_tuple(self, outs, item, module) ==
    IF ~item.repr_c THEN Call(self, outs, Ok(<<>>), {})
    ELSE IF item.node # "Struct" THEN Call(self, outs, Err("Bug", MsgWrongItemStruct), {})
    ELSE IF item.generics THEN Call(self, outs, Err("Error", MsgGenericStruct), {})
    ELSE IF item.data = "Struct"
    THEN parse_struct_emit(outs, item, module,
                           struct_fields(self, module, item.fields,
                                         item.docs \o "typedef struct " \o item.ident \o " {\n",
                                         {}))
    ELSE IF item.data = "Tuple"
    THEN Call(decls_insert(self, item.ident, module),
              append_to_header(self,
                               item.docs \o "typedef struct " \o item.ident
                                   \o " " \o item.ident \o ";\n\n",
                               module, outs),
              Ok(<<>>),
              {Emitted(header_name(module, self.lib_name), "struct", item.ident, {})})
    ELSE Call(self, outs, Err("Error", MsgUnitOrTuple), {})

\* Lang::parse_struct
parse_struct(self, outs, item, module) ==
    IF ~item.repr_c THEN Call(self, outs, Ok(<<>>), {})
    ELSE IF item.node # "Struct" THEN Call(self, outs, Err("Bug", MsgWrongItemStruct), {})
    ELSE IF item.generics THEN Call(self, outs, Err("Error", MsgGenericStruct), {})
    ELSE IF item.data = "Struct"
    THEN parse_struct_emit(outs, item, module,
                           struct_fields(self, module, item.fields,
                                         item.docs \o "typedef struct " \o item.ident \o " {\n",
                                         {}))
    ELSE IF item.data = "Tuple" /\ Len(item.fields) = 1
    THEN Call(decls_insert(self, item.ident, module),
              append_to_header(self,
                               item.docs \o "typedef struct " \o item.ident
                                   \o " " \o item.ident \o ";\n\n",
                               module, outs),
              Ok(<<>>),
              {Emitted(header_name(module, self.lib_name), "struct", item.ident, {})})
    ELSE Call(self, outs, Err("Error", MsgUnitOrTuple), {})

\* the loop of transform_native_fn over the arguments
RECURSIVE fn_args(_, _, _, _, _), fn_arg(_, _, _, _, _, _)
fn_args(self, module, inputs, args, refs) ==
    IF inputs = <<>> THEN [self |-> self, res |-> Ok(args), refs |-> refs]
    ELSE fn_arg(self, module, inputs, args, refs, rust_to_c(Head(inputs).ty, Head(inputs).pat))

\* one round of that loop, c_ty being rust_to_c(&arg.ty, &arg_name)
fn_arg(self, module, inputs, args, refs, c_ty) ==
    IF ~c_ty.ok THEN [self |-> self, res |-> c_ty, refs |-> refs]
    ELSE fn_args(add_dependencies(self, module, c_ty.v.cty), module, Tail(inputs),
                 Append(args, c_ty.v), refs \cup Range(dependencies(c_ty.v.cty)))

\* the text name(args) of transform_native_fn
FnBuf(name, args) ==
    name \o "("
    \o (IF args = <<>> THEN "void"
        ELSE JoinStr([i \in DOMAIN args |-> DisplayNamed(args[i])], ", "))
    \o ")"

\* the end of transform_native_fn: push docs, the declaration and ";\n\n",
\* and append the text to the header
fn_emit(self, outs, docs, name, module, full_declaration, refs) ==
    Call(self,
         append_output(docs \o full_declaration \o ";\n\n",
                       header_name(module, self.lib_name), outs),
         Ok(<<>>),
         {Emitted(header_name(module, self.lib_name), "fn", name, refs)})

\* the arm FunctionRetTy::Ty of transform_native_fn, c_ty being rust_to_c(&*ty, &buf)
fn_return_ty(self, outs, docs, name, module, refs, c_ty) ==
    IF ~c_ty.ok THEN Call(self, outs, c_ty, {})
    ELSE fn_emit(add_dependencies(self, module, c_ty.v.cty), outs, docs, name, module,
                 DisplayNamed(c_ty.v), refs \cup Range(dependencies(c_ty.v.cty)))

\* transform_native_fn after the loop over its arguments
fn_return(a, outs, fn_decl, docs, name, module) ==
    IF ~a.res.ok THEN Call(a.self, outs, a.res, {})
    ELSE IF fn_decl.output.ret = "Ty" /\ fn_decl.output.ty.node = "Never"
    THEN Call(a.self, outs, Err("Error", MsgNever), {})
    ELSE IF fn_decl.output.ret = "Default"
    THEN fn_emit(a.self, outs, docs, name, module, "void " \o FnBuf(name, a.res.v), a.refs)
    ELSE fn_return_ty(a.self, outs, docs, name, module, a.refs,
                      rust_to_c(fn_decl.output.ty, FnBuf(name, a.res.v)))

\* LangC::transform_native_fn
transform_native_fn(self, outs, fn_decl, docs, name, module) ==
    fn_return(fn_args(self, module, fn_decl.inputs, <<>>, {}), outs, fn_decl, docs, name, module)

\* the calling conventions parse_fn lets through
CAbis == {"C", "Cdecl", "Stdcall", "Fastcall", "System"}

parse_fn_generics_first(self, outs, item, module) ==
    IF ~item.no_mangle THEN Call(self, outs, Ok(<<>>), {})
    ELSE IF item.node # "Fn" THEN Call(self, outs, Err("Bug", MsgWrongItemFn), {})
    ELSE IF item.generics THEN Call(self, outs, Err("Error", MsgGenericFn), {})
    ELSE IF item.abi \notin CAbis THEN Call(self, outs, Ok(<<>>), {})
    ELSE transform_native_fn(self, outs, item, item.docs, item.ident, module)

\* Lang::parse_fn
parse_fn(self, outs, item, module) ==
    IF ~item.no_mangle THEN Call(self, outs, Ok(<<>>), {})
    ELSE IF item.node # "Fn" THEN Call(self, outs, Err("Bug", MsgWrongItemFn), {})
    ELSE IF item.abi \notin CAbis THEN Call(self, outs, Ok(<<>>), {})
    ELSE IF item.generics THEN Call(self, outs, Err("Error", MsgGenericFn), {})
    ELSE transform_native_fn(self, outs, item, item.docs, item.ident, module)

-----------------------------------------------------------------------------
(* finalise_output *)

\* the format string "#include <stdint.h>\n#include <stdbool.h>\n\n{}" up to {}
IncludeStdint == "#include <stdint.h>\n"
IncludeStdbool == "#include <stdbool.h>\n"
StdIncludes == <<IncludeStdint, IncludeStdbool, "\n">>

IncludeLine(header) == "#include \"" \o Cat(header) \o "\"\n"

\* the name of the top-level header
UmbrellaId(self) == self.lib_name \o DotH

WrapHeaderIncludesOutside(value, header) ==
    wrap_guard(StdIncludes \o wrap_extern(value), header)

\* the new text of a header: the body of the loop over outputs.iter_mut()
WrapHeader(value, header) == wrap_guard(wrap_extern(StdIncludes \o value), header)

ResolvedEdgesKeepSelf(self, outs) ==
    {e \in (DOMAIN outs) \X (DOMAIN outs) :
        /\ e[2] \in DOMAIN self.deps
        /\ \E i \in DOMAIN self.deps[e[2]] :
              /\ self.deps[e[2]][i] \in DOMAIN self.decls
              /\ self.decls[self.deps[e[2]][i]] = e[1]}

\* the set edges of finalise_output: <<pred, succ>> for every dep of the
\* header succ that decls resolves to another header pred
ResolvedEdges(self, outs) ==
    {e \in (DOMAIN outs) \X (DOMAIN outs) :
        /\ e[2] \in DOMAIN self.deps
        /\ \E i \in DOMAIN self.deps[e[2]] :
              /\ self.deps[e[2]][i] \in DOMAIN self.decls
              /\ self.decls[self.deps[e[2]][i]] = e[1]
        /\ e[1] # e[2]}

\* nodes_map[&pred] panics when decls names a header that Outputs lacks
UnknownPred(self, outs) ==
    \E succ \in (DOMAIN outs) \cap (DOMAIN self.deps) :
        \E i \in DOMAIN self.deps[succ] :
            /\ self.deps[succ][i] \in DOMAIN self.decls
            /\ self.decls[self.deps[succ][i]] # succ
            /\ self.decls[self.deps[succ][i]] \notin DOMAIN outs

\* the sequences that list every node once
Orders(nodes) == {o \in [1..Cardinality(nodes) -> nodes] : Range(o) = nodes}

IsToposortIgnoringEdges(order, nodes, edges) == order \in Orders(nodes)

\* what algo::toposort may return as Ok: Outputs is a hash map, so the nodes
\* are numbered in no particular order, and the result is some order of all
\* nodes in which every edge points forward
IsToposort(order, nodes, edges) ==
    /\ order \in Orders(nodes)
    /\ \A e \in edges : IndexOf(order, e[1]) < IndexOf(order, e[2])

\* algo::toposort returns Err(Cycle) exactly when no such order exists
HasCycle(nodes, edges) == ~ \E order \in Orders(nodes) : IsToposort(order, nodes, edges)

\* a panic: the call does not return
Panicked(message) == [ok |-> FALSE, level |-> "Panic", message |-> message]

\* the loop of finalise_output over outputs.iter_mut(), on the texts
WrapAll(outs) == [h \in DOMAIN outs |-> WrapHeader(outs[h], h)]

\* the top-level header: one include line for each node of sorted_deps
ModuleIncludes(sorted_deps) == [i \in DOMAIN sorted_deps |-> IncludeLine(sorted_deps[i])]

\* Lang::finalise_output, with sorted_deps the order toposort returns
finalise_output(self, outs, sorted_deps) ==
    IF UnknownPred(self, outs)
    THEN Call(self, WrapAll(outs), Panicked("nodes_map: no entry found for key"), {})
    ELSE IF HasCycle(DOMAIN outs, ResolvedEdges(self, outs))
    THEN Call(self, WrapAll(outs), Panicked("unwrap! called on Err(Cycle)"), {})
    ELSE Call(self,
              MapInsert(WrapAll(outs), UmbrellaId(self), ModuleIncludes(sorted_deps)),
              Ok(<<>>), {})

-----------------------------------------------------------------------------
(* Bounds and inputs *)

\* calls made on one LangC before the run ends
MaxCalls == 3
\* declarations processed by each of the two runs of SpecOrder
MaxRun == 3
\* length of the identifiers given to sanitise_id
MaxIdLen == 3
\* length of the module paths given to header_name
MaxPathLen == 2

backend == <<"b", "a", "c", "k", "e", "n", "d">>
shapes == <<"s", "h", "a", "p", "e", "s">>

LibNames == {shapes}

ModTop == <<ffi>>
ModA == <<ffi, <<"a">>>>
ModB == <<ffi, <<"b">>>>

i32 == TyPath(<<"i32">>)
Named(name) == TyPath(<<name>>)
ConstPtr(ty) == TyPtr("Immutable", ty)
MutPtr(ty) == TyPtr("Mutable", ty)

\* #[repr(C)] pub struct T { x: i32 }                          in a
StructT == Decl(ItemStruct("T", TRUE, FALSE, "Struct", <<Field("x", i32)>>), ModA)
\* #[repr(C)] pub struct S { t: T, u: *const T }               in b
StructS == Decl(ItemStruct("S", TRUE, FALSE, "Struct",
                           <<Field("t", Named("T")), Field("u", ConstPtr(Named("T")))>>), ModB)
\* #[repr(C)] pub struct R { s: *mut S }                       in a
StructR == Decl(ItemStruct("R", TRUE, FALSE, "Struct", <<Field("s", MutPtr(Named("S")))>>),
                ModA)
\* pub type T = i32;                                           in the top module
AliasT == Decl(ItemTy("T", FALSE, i32), ModTop)
\* pub type U = T;                                             in b
AliasU == Decl(ItemTy("U", FALSE, Named("T")), ModB)
\* #[repr(C)] pub enum E { X, Y }                              in a
EnumE == Decl(ItemEnum("E", TRUE, FALSE, <<Variant("X", TRUE), Variant("Y", TRUE)>>), ModA)
\* #[repr(C)] pub struct V { e: E }                            in b
StructV == Decl(ItemStruct("V", TRUE, FALSE, "Struct", <<Field("e", Named("E"))>>), ModB)
\* #[no_mangle] pub extern "C" fn f(t: T) -> *const S          in the top module
FnF == Decl(ItemFn("f", TRUE, "C", FALSE, <<Arg("t", Named("T"))>>,
                   RetTy(ConstPtr(Named("S")))), ModTop)
\* #[repr(C)] pub struct N { next: *mut N, z: size_t }         in a
StructN == Decl(ItemStruct("N", TRUE, FALSE, "Struct",
                           <<Field("next", MutPtr(Named("N"))),
                             Field("z", Named("size_t"))>>), ModA)

\* the declarations of Spec: definitions and references across headers
LinkDecls == {StructT, StructS, StructR, AliasT, AliasU, EnumE, StructV, FnF, StructN}

-----------------------------------------------------------------------------
(* The generation run: one LangC and one Outputs *)

Self == [lib_name |-> lib_name, decls |-> decls, deps |-> deps]

InitMain ==
    /\ lib_name = LangC_new.lib_name
    /\ decls = LangC_new.decls
    /\ deps = LangC_new.deps
    /\ outputs = EmptyMap
    /\ last = [op |-> "new", res |-> Ok(<<>>)]
    /\ ncalls = 0
    /\ finalised = FALSE
    /\ emitted = {}

NoRuns == runA = <<>> /\ runB = <<>>
NoFn == fn_in = <<>> /\ fn_out = <<>> /\ fn_out2 = <<>> /\ pc = "unused"

Init == InitMain /\ NoRuns /\ NoFn

\* the state after a call that returned (or panicked)
Returned(op, d, call) ==
    /\ lib_name' = call.self.lib_name
    /\ decls' = call.self.decls
    /\ deps' = call.self.deps
    /\ outputs' = call.outputs
    /\ emitted' = emitted \cup call.emit
    /\ last' = [op |-> op, d |-> d, res |-> call.res]
    /\ ncalls' = ncalls + 1
    /\ UNCHANGED <<runA, runB, fnVars>>

CanCall == ~finalised /\ ncalls < MaxCalls

SetLibName(name) ==
    /\ CanCall
    /\ Returned("set_lib_name", name, Call(set_lib_name(Self, name), outputs, Ok(<<>>), {}))
    /\ UNCHANGED finalised

ParseTy(d) ==
    /\ CanCall
    /\ Returned("parse_ty", d, parse_ty(Self, outputs, d.item, d.module))
    /\ UNCHANGED finalised

ParseEnum(d) ==
    /\ CanCall
    /\ Returned("parse_enum", d, parse_enum(Self, outputs, d.item, d.module))
    /\ UNCHANGED finalised

ParseStruct(d) ==
    /\ CanCall
    /\ Returned("parse_struct", d, parse_struct(Self, outputs, d.item, d.module))
    /\ UNCHANGED finalised

ParseFn(d) ==
    /\ CanCall
    /\ Returned("parse_fn", d, parse_fn(Self, outputs, d.item, d.module))
    /\ UNCHANGED finalised

\* finalise_output runs once, after the declarations
FinaliseOutput ==
    /\ ~finalised
    /\ \E sorted_deps \in Orders(DOMAIN outputs) :
          /\ \/ UnknownPred(Self, outputs)
             \/ HasCycle(DOMAIN outputs, ResolvedEdges(Self, outputs))
             \/ IsToposort(sorted_deps, DOMAIN outputs, ResolvedEdges(Self, outputs))
          /\ Returned("finalise_output", sorted_deps,
                      finalise_output(Self, outputs, sorted_deps))
    /\ finalised' = TRUE

\* the front end routes an item to the visitor of its kind
OfKind(ds, node) == {d \in ds : d.item.node = node}

\* a struct routed to parse_enum and to parse_ty
Misrouted == {StructT}

Next ==
    \/ \E name \in LibNames : SetLibName(name)
    \/ \E d \in OfKind(LinkDecls, "Ty") \cup Misrouted : ParseTy(d)
    \/ \E d \in OfKind(LinkDecls, "Enum") \cup Misrouted : ParseEnum(d)
    \/ \E d \in OfKind(LinkDecls, "Struct") : ParseStruct(d)
    \/ \E d \in OfKind(LinkDecls, "Fn") : ParseFn(d)
    \/ FinaliseOutput

Spec == Init /\ [][Next]_vars

-----------------------------------------------------------------------------
(* SpecGate: the same run over declarations that are skipped or rejected   *)

RefTo(ty) == TyRptr(ty)
\* fn() -> !
FnPtrNever == TyBareFn(FALSE, <<>>, RetTy(TyNever))
\* fn()
FnPtrUnit == TyBareFn(FALSE, <<>>, RetDefault)

\* #[no_mangle] pub extern "C" fn ok()                          in a
GoodFn == Decl(ItemFn("ok", TRUE, "C", FALSE, <<>>, RetDefault), ModA)
\* pub struct Plain<X> { r: &T }         (no #[repr(C)])
SkipStruct == Decl(ItemStruct("Plain", FALSE, TRUE, "Struct",
                              <<Field("r", RefTo(Named("T")))>>), ModA)
\* pub struct Nothing;                   (no #[repr(C)])
SkipUnit == Decl(ItemStruct("Nothing", FALSE, FALSE, "Unit", <<>>), ModA)
\* pub enum Data { One(i32) }            (no #[repr(C)])
SkipEnum == Decl(ItemEnum("Data", FALSE, TRUE, <<Variant("One", FALSE)>>), ModA)
\* pub extern "C" fn hidden(t: T) -> !   (no #[no_mangle])
SkipFn == Decl(ItemFn("hidden", FALSE, "C", FALSE, <<Arg("t", Named("T"))>>, RetTy(TyNever)),
               ModA)
\* #[no_mangle] pub extern "Rust" fn rusty<X>(t: T) -> !
SkipAbi == Decl(ItemFn("rusty", TRUE, "Rust", TRUE, <<Arg("t", Named("T"))>>, RetTy(TyNever)),
                ModA)
\* pub type G<X> = &T;
SkipAlias == Decl(ItemTy("G", TRUE, RefTo(Named("T"))), ModA)

\* #[repr(C)] pub enum GE<X> { X }
BadGenericEnum == Decl(ItemEnum("GE", TRUE, TRUE, <<Variant("X", TRUE)>>), ModA)
\* #[repr(C)] pub enum NU { X, One(i32) }
BadVariant == Decl(ItemEnum("NU", TRUE, FALSE, <<Variant("X", TRUE), Variant("One", FALSE)>>),
                   ModA)
\* #[repr(C)] pub struct GS<X> { x: i32 }
BadGenericStruct == Decl(ItemStruct("GS", TRUE, TRUE, "Struct", <<Field("x", i32)>>), ModA)
\* #[repr(C)] pub struct Pair(i32, i32);
BadTuple == Decl(ItemStruct("Pair", TRUE, FALSE, "Tuple", <<Field("0", i32), Field("1", i32)>>),
                 ModA)
\* #[repr(C)] pub struct Unit;
BadUnit == Decl(ItemStruct("Unit", TRUE, FALSE, "Unit", <<>>), ModA)
\* #[repr(C)] pub struct Half { t: T, r: &T }                   in b
BadField == Decl(ItemStruct("Half", TRUE, FALSE, "Struct",
                            <<Field("t", Named("T")), Field("r", RefTo(Named("T")))>>), ModB)
\* #[no_mangle] pub extern "C" fn gf<X>()
BadGenericFn == Decl(ItemFn("gf", TRUE, "C", TRUE, <<>>, RetDefault), ModA)
\* #[no_mangle] pub extern "C" fn die(t: T) -> !                in b
BadNever == Decl(ItemFn("die", TRUE, "C", FALSE, <<Arg("t", Named("T"))>>, RetTy(TyNever)), ModB)
\* #[no_mangle] pub extern "C" fn far(x: foo::Bar)
BadPath == Decl(ItemFn("far", TRUE, "C", FALSE, <<Arg("x", TyPath(<<"foo", "Bar">>))>>,
                       RetDefault), ModA)
\* #[no_mangle] pub extern "C" fn cb() -> fn() -> !
BadFnPtrNever == Decl(ItemFn("cb", TRUE, "C", FALSE, <<>>, RetTy(FnPtrNever)), ModA)
\* pub type P = *const fn();
BadUnnamed == Decl(ItemTy("P", FALSE, ConstPtr(FnPtrUnit)), ModA)
\* pub type Q = &T;
BadAlias == Decl(ItemTy("Q", FALSE, RefTo(Named("T"))), ModA)

Skipped == {SkipStruct, SkipUnit, SkipEnum, SkipFn, SkipAbi, SkipAlias}
Rejected == {BadGenericEnum, BadVariant, BadGenericStruct, BadTuple, BadUnit, BadField,
             BadGenericFn, BadNever, BadPath, BadFnPtrNever, BadUnnamed, BadAlias}

\* the declarations of SpecGate
GateDecls == {StructT, GoodFn} \cup Skipped \cup Rejected

NextGate ==
    \/ \E name \in LibNames : SetLibName(name)
    \/ \E d \in OfKind(GateDecls, "Ty") \cup Misrouted : ParseTy(d)
    \/ \E d \in OfKind(GateDecls, "Enum") \cup Misrouted : ParseEnum(d)
    \/ \E d \in OfKind(GateDecls, "Struct") : ParseStruct(d)
    \/ \E d \in OfKind(GateDecls, "Fn") : ParseFn(d)
    \/ FinaliseOutput

SpecGate == Init /\ [][NextGate]_vars

-----------------------------------------------------------------------------
(* SpecOrder: two runs, each processing declarations of the same set, each *)
(* declaration at most once, in any order                                  *)

OrderDecls == {StructT, AliasT, StructS, StructV}

NewRun == [self |-> LangC_new, outputs |-> EmptyMap, done |-> <<>>, emitted |-> {}]

\* the front end: the visitor of the item's kind
Visit(self, outs, d) ==
    CASE d.item.node = "Ty" -> parse_ty(self, outs, d.item, d.module)
      [] d.item.node = "Enum" -> parse_enum(self, outs, d.item, d.module)
      [] d.item.node = "Struct" -> parse_struct(self, outs, d.item, d.module)
      [] d.item.node = "Fn" -> parse_fn(self, outs, d.item, d.module)

\* the run after its next declaration, call being what the visitor yields
RunAfter(run, d, call) ==
    [self |-> call.self, outputs |-> call.outputs, done |-> Append(run.done, d),
     emitted |-> run.emitted \cup call.emit]

CanProcess(run, d) == Len(run.done) < MaxRun /\ d \notin Range(run.done)

ProcessA(d) ==
    /\ CanProcess(runA, d)
    /\ runA' = RunAfter(runA, d, Visit(runA.self, runA.outputs, d))
    /\ UNCHANGED <<runB, mainVars, fnVars>>

ProcessB(d) ==
    /\ CanProcess(runB, d)
    /\ runB' = RunAfter(runB, d, Visit(runB.self, runB.outputs, d))
    /\ UNCHANGED <<runA, mainVars, fnVars>>

InitOrder == InitMain /\ NoFn /\ runA = NewRun /\ runB = NewRun

NextOrder == \E d \in OrderDecls : ProcessA(d) \/ ProcessB(d)

SpecOrder == InitOrder /\ [][NextOrder]_vars

-----------------------------------------------------------------------------
(* SpecHeader: header_name on module paths and library names *)

Segments == {ffi, <<"a">>, backend, shapes}
HeaderLibs == {backend, shapes, <<"a">>}

\* the non-empty paths of at most MaxPathLen segments
Paths == UNION {[1..n -> Segments] : n \in 1..MaxPathLen}

InitHeader ==
    /\ InitMain /\ NoRuns
    /\ fn_in \in [module : Paths, lib_name : HeaderLibs]
    /\ fn_out = <<>> /\ fn_out2 = <<>>
    /\ pc = "call"

HeaderName ==
    /\ pc = "call"
    /\ fn_out' = header_name(fn_in.module, fn_in.lib_name)
    /\ pc' = "returned"
    /\ UNCHANGED <<fn_in, fn_out2, mainVars, runA, runB>>

NextHeader == HeaderName

SpecHeader == InitHeader /\ [][NextHeader]_vars

-----------------------------------------------------------------------------
(* SpecSanitise: sanitise_id on identifiers, and again on its result *)

IdChars == {"a", "Z", "7", "_", ".", "/", "!"}
filename_h == <<"f", "i", "l", "e", "n", "a", "m", "e", ".", "h">>

\* the identifiers of at most MaxIdLen characters, and the one of the test
Ids == UNION {[1..n -> IdChars] : n \in 0..MaxIdLen} \cup {filename_h}

InitSanitise ==
    /\ InitMain /\ NoRuns
    /\ fn_in \in Ids
    /\ fn_out = <<>> /\ fn_out2 = <<>>
    /\ pc = "call"

Sanitise ==
    /\ pc = "call"
    /\ fn_out' = sanitise_id(fn_in)
    /\ pc' = "returned"
    /\ UNCHANGED <<fn_in, fn_out2, mainVars, runA, runB>>

SanitiseAgain ==
    /\ pc = "returned"
    /\ fn_out2' = sanitise_id(fn_out)
    /\ pc' = "again"
    /\ UNCHANGED <<fn_in, fn_out, mainVars, runA, runB>>

NextSanitise == Sanitise \/ SanitiseAgain

SpecSanitise == InitSanitise /\ [][NextSanitise]_vars

-----------------------------------------------------------------------------
(* SpecEmit: the visitors on functions, structs of every shape and aliases *)
(* of function-pointer types                                               *)

\* declarations processed by the run of SpecEmit
MaxEmit == 2

\* #[no_mangle] pub extern "C" fn stop() -> !
DivFn == Decl(ItemFn("stop", TRUE, "C", FALSE, <<>>, RetTy(TyNever)), ModA)
\* #[no_mangle] pub extern "C" fn worse(r: &T) -> !
DivFnBadArg == Decl(ItemFn("worse", TRUE, "C", FALSE, <<Arg("r", RefTo(Named("T")))>>,
                           RetTy(TyNever)), ModA)
\* #[no_mangle] pub extern "C" fn take(cb: fn() -> !)
TakesDiv == Decl(ItemFn("take", TRUE, "C", FALSE, <<Arg("cb", FnPtrNever)>>, RetDefault), ModA)
\* #[repr(C)] pub struct Hooks { n: i32, cb: fn(x: T) -> ! }
FieldDiv == Decl(ItemStruct("Hooks", TRUE, FALSE, "Struct",
                            <<Field("n", i32),
                              Field("cb", TyBareFn(FALSE, <<Arg("x", Named("T"))>>,
                                                   RetTy(TyNever)))>>), ModA)
\* pub type Abort = fn() -> !;
AliasDiv == Decl(ItemTy("Abort", FALSE, FnPtrNever), ModA)
\* pub type Deep = fn(cb: fn() -> !);
AliasNestedDiv == Decl(ItemTy("Deep", FALSE,
                              TyBareFn(FALSE, <<Arg("cb", FnPtrNever)>>, RetDefault)), ModA)
\* pub type Far = *const fn() -> !;
AliasPtrDiv == Decl(ItemTy("Far", FALSE, ConstPtr(FnPtrNever)), ModA)
\* #[repr(C)] pub struct Handle(fn() -> !);
OpaqueDiv == Decl(ItemStruct("Handle", TRUE, FALSE, "Tuple", <<Field("0", FnPtrNever)>>), ModA)

\* #[no_mangle] pub extern "C" fn make_adder() -> fn(i32, i32) -> i32
\* (pat_to_string gives "" for a parameter without a name)
MakeAdder == Decl(ItemFn("make_adder", TRUE, "C", FALSE, <<>>,
                         RetTy(TyBareFn(FALSE, <<Arg("", i32), Arg("", i32)>>, RetTy(i32)))),
                  ModA)
\* #[no_mangle] pub extern "C" fn sum(a: i32, b: *const u8) -> i32
Sum == Decl(ItemFn("sum", TRUE, "C", FALSE,
                   <<Arg("a", i32), Arg("b", ConstPtr(TyPath(<<"u8">>)))>>, RetTy(i32)), ModA)
\* #[no_mangle] pub extern "C" fn get() -> extern fn(hi: libc::c_int) -> libc::c_double
GetCallback == Decl(ItemFn("get", TRUE, "C", FALSE, <<>>,
                           RetTy(TyBareFn(FALSE, <<Arg("hi", TyPath(<<"libc", "c_int">>))>>,
                                          RetTy(TyPath(<<"libc", "c_double">>))))), ModA)

\* #[repr(C)] pub struct Empty {}
EmptyStruct == Decl(ItemStruct("Empty", TRUE, FALSE, "Struct", <<>>), ModA)
\* #[repr(C)] pub struct Opaque(&T);
OpaqueRef == Decl(ItemStruct("Opaque", TRUE, FALSE, "Tuple", <<Field("0", RefTo(Named("T")))>>),
                  ModB)
\* #[repr(C)] pub struct Zero();
TupleZero == Decl(ItemStruct("Zero", TRUE, FALSE, "Tuple", <<>>), ModA)
\* #[repr(C)] pub struct Triple(i32, T, i32);
TupleThree == Decl(ItemStruct("Triple", TRUE, FALSE, "Tuple",
                              <<Field("0", i32), Field("1", Named("T")), Field("2", i32)>>),
                   ModA)
\* #[repr(C)] pub struct Table { rows: [S; 4], cb: fn(t: T) -> *mut S }       in a
StructTable == Decl(ItemStruct("Table", TRUE, FALSE, "Struct",
                               <<Field("rows", TyArray(Named("S"))),
                                 Field("cb", TyBareFn(FALSE, <<Arg("t", Named("T"))>>,
                                                      RetTy(MutPtr(Named("S")))))>>), ModA)

\* the declarations of SpecEmit
EmitDecls == {DivFn, BadNever, DivFnBadArg, TakesDiv, BadFnPtrNever, FieldDiv, AliasDiv,
              AliasNestedDiv, AliasPtrDiv, OpaqueDiv, SkipFn,
              MakeAdder, Sum, GetCallback, GoodFn, FnF,
              StructT, StructS, StructTable, EmptyStruct, OpaqueRef, TupleZero, TupleThree,
              BadTuple, BadUnit, BadField, BadGenericStruct, AliasU}

CanEmit == ncalls < MaxEmit

NextEmit ==
    \/ \E d \in OfKind(EmitDecls, "Ty") : CanEmit /\ ParseTy(d)
    \/ \E d \in OfKind(EmitDecls, "Struct") : CanEmit /\ ParseStruct(d)
    \/ \E d \in OfKind(EmitDecls, "Fn") : CanEmit /\ ParseFn(d)

SpecEmit == Init /\ [][NextEmit]_vars

-----------------------------------------------------------------------------
(* SpecType: anon_rust_to_c and rust_to_c on a type, and the text that     *)
(* Display gives of what they return                                       *)

\* depth of the pointer chains
MaxPtrDepth == 3

u8 == TyPath(<<"u8">>)
Unit == TyTup(<<>>)
\* [u8; 4]
ArrayOfU8 == TyArray(u8)

\* the names of rust_ty_to_c's table, some of libc's, and names of neither
TypeNames == {"f32", "f64", "i8", "i16", "i32", "i64", "isize",
              "u8", "u16", "u32", "u64", "usize", "bool",
              "c_void", "c_int", "c_ulonglong", "size_t", "MyType", "SomeType"}

UnqualifiedTypes == {TyPath(<<n>>) : n \in TypeNames} \cup {Unit}

\* module prefixes of a qualified path: the two that path_to_c knows, and others
ModulePrefixes == {<<"libc">>, <<"std", "os", "raw">>, <<"my_mod">>, <<"std", "os">>,
                   <<"os", "raw">>, <<"raw">>, <<"std", "libc">>, <<"libc", "libc">>,
                   <<"std", "os", "raw", "raw">>, <<"core", "ffi">>}

QualifiedNames == {"c_void", "c_int", "c_char", "c_ulonglong", "c_ushort", "size_t",
                   "MyType", "i32"}

QualifiedTypes == {TyPath(m \o <<n>>) : m \in ModulePrefixes, n \in QualifiedNames}

\* the types under the pointers of a chain
ChainBases == {u8, TyPath(<<"bool">>), Unit, TyPath(<<"MyType">>),
               TyPath(<<"libc", "c_ulonglong">>), ArrayOfU8}

\* the pointer chains of exactly n levels over the bases
RECURSIVE ChainsOfDepth(_)
ChainsOfDepth(n) ==
    IF n = 0 THEN ChainBases
    ELSE {TyPtr(m, t) : m \in {"Immutable", "Mutable"}, t \in ChainsOfDepth(n - 1)}

PointerChains == UNION {ChainsOfDepth(n) : n \in 1..MaxPtrDepth}

\* fn(a: bool), extern fn(hi: libc::c_int) -> libc::c_double, fn(i32, i32) -> i32,
\* fn() -> !, fn(x: MyType) -> !, fn(cb: fn() -> !), for<'a> fn(), fn() -> *const MyType
FnPtrTypes ==
    {TyBareFn(FALSE, <<Arg("a", TyPath(<<"bool">>))>>, RetDefault),
     TyBareFn(FALSE, <<Arg("hi", TyPath(<<"libc", "c_int">>))>>,
              RetTy(TyPath(<<"libc", "c_double">>))),
     TyBareFn(FALSE, <<Arg("", TyPath(<<"i32">>)), Arg("", TyPath(<<"i32">>))>>,
              RetTy(TyPath(<<"i32">>))),
     TyBareFn(FALSE, <<>>, RetTy(TyNever)),
     TyBareFn(FALSE, <<Arg("x", TyPath(<<"MyType">>))>>, RetTy(TyNever)),
     TyBareFn(FALSE, <<Arg("cb", TyBareFn(FALSE, <<>>, RetTy(TyNever)))>>, RetDefault),
     TyBareFn(TRUE, <<>>, RetDefault),
     TyBareFn(FALSE, <<>>, RetTy(TyPtr("Immutable", TyPath(<<"MyType">>))))}

\* !, &MyType, (i32, i32), and a function pointer under a pointer and in an array
OtherTypes == {TyNever, TyRptr(TyPath(<<"MyType">>)),
               TyTup(<<TyPath(<<"i32">>), TyPath(<<"i32">>)>>),
               TyPtr("Immutable", TyBareFn(FALSE, <<>>, RetTy(TyNever))),
               TyArray(TyBareFn(FALSE, <<>>, RetTy(TyNever)))}

TypeInputs == UnqualifiedTypes \cup QualifiedTypes \cup PointerChains \cup FnPtrTypes
              \cup OtherTypes

AssocNames == {"gabriel", "x"}

\* what a caller sees of a Result<CType, Error>: the value and its text
Rendered(r) == [res |-> r, text |-> IF r.ok THEN DisplayCType(r.v) ELSE ""]
\* the same of a Result<CTypeNamed, Error>
RenderedNamed(r) == [res |-> r, text |-> IF r.ok THEN DisplayNamed(r.v) ELSE ""]

InitType ==
    /\ InitMain /\ NoRuns
    /\ fn_in \in [ty : TypeInputs, name : AssocNames]
    /\ fn_out = <<>> /\ fn_out2 = <<>>
    /\ pc = "call"

\* format!("{}", anon_rust_to_c(&ty))
TranslateAnon ==
    /\ pc = "call"
    /\ fn_out' = Rendered(anon_rust_to_c(fn_in.ty))
    /\ pc' = "anon"
    /\ UNCHANGED <<fn_in, fn_out2, mainVars, runA, runB>>

\* format!("{}", rust_to_c(&ty, name))
TranslateNamed ==
    /\ pc = "anon"
    /\ fn_out2' = RenderedNamed(rust_to_c(fn_in.ty, fn_in.name))
    /\ pc' = "named"
    /\ UNCHANGED <<fn_in, fn_out, mainVars, runA, runB>>

NextType == TranslateAnon \/ TranslateNamed

SpecType == InitType /\ [][NextType]_vars

-----------------------------------------------------------------------------
(* Properties *)

ParseOps == {"parse_ty", "parse_enum", "parse_struct", "parse_fn"}

\* the step is a call of a visitor
VisitorCalled == ncalls' = ncalls + 1 /\ last'.op \in ParseOps

\* the step is the call of finalise_output
FinaliseCalled == ~finalised /\ finalised'

\* the header a declaration goes to
HeaderOf(d) == header_name(d.module, lib_name)

\* the top-level header after finalise_output returned
Umbrella == outputs[UmbrellaId(Self)]

\* the line of the top-level header that includes header h
IncludeOf(h) == "#include \"" \o Cat(h) \o "\"\n"

\* R has a cycle over nodes: some non-empty set of nodes in which every node
\* has a predecessor of the set
CycleIn(nodes, R) ==
    \E S \in (SUBSET nodes) \ {{}} : \A x \in S : \E y \in S : <<y, x>> \in R

\* header x defines (by the registry) a name that a recorded fact of another
\* header y references
CrossRefs(registry, facts, keys) ==
    {e \in keys \X keys :
        /\ e[1] # e[2]
        /\ e[2] \in DOMAIN facts
        /\ \E n \in DOMAIN registry : registry[n] = e[1] /\ n \in Range(facts[e[2]])}

(* C1: after finalise_output has returned, a header that defines (alias,   *)
(* struct or enum) a type name is included by the top-level header before  *)
(* every other header with an appended declaration that references the     *)
(* name.                                                                   *)
C1_DefinitionIncludedFirst ==
    (finalised /\ last.res.ok) =>
        \A a \in emitted, b \in emitted :
            (a.kind \in {"alias", "struct", "enum"} /\ a.name \in b.refs /\ a.header # b.header)
                => IndexOf(Umbrella, IncludeOf(a.header)) < IndexOf(Umbrella, IncludeOf(b.header))

(* C2: when the resolved edges between the headers form a cycle,           *)
(* finalise_output returns an error value (it does not panic) and adds no  *)
(* top-level header to Outputs.                                            *)
C2_CycleIsReturnedError ==
    (finalised /\ CycleIn(DOMAIN outputs, CrossRefs(decls, deps, DOMAIN outputs)))
        => /\ ~last.res.ok
           /\ last.res.level = "Error"
           /\ UmbrellaId(Self) \notin DOMAIN outputs

(* C3: a visitor call that returns a structured error (level Error) leaves *)
(* every text buffer of Outputs and every entry of the registry as they    *)
(* were.                                                                   *)
C3_RejectionLeavesOutputsAndRegistry ==
    [][(VisitorCalled /\ ~last'.res.ok /\ last'.res.level = "Error")
           => (outputs' = outputs /\ decls' = decls)]_vars

\* a rejected enum (its second variant carries data) whose header has text
C3_Witness ==
    /\ last.op = "parse_enum" /\ last.d = BadVariant
    /\ ~last.res.ok /\ last.res.message = MsgNonUnitVariant
    /\ HeaderOf(last.d) \in DOMAIN outputs
    /\ DOMAIN decls # {}

\* the declaration fails the exposure gate of its visitor
FailsGate(op, item) ==
    \/ op = "parse_ty" /\ item.node = "Ty" /\ item.generics
    \/ op = "parse_enum" /\ item.node = "Enum" /\ ~item.repr_c
    \/ op = "parse_struct" /\ item.node = "Struct" /\ ~item.repr_c
    \/ op = "parse_fn" /\ item.node = "Fn"
          /\ (~item.no_mangle \/ item.abi \notin {"C", "Cdecl", "Stdcall", "Fastcall", "System"})

(* C4: a visitor call on a declaration that fails its exposure gate        *)
(* returns Ok and leaves Outputs, the registry and the dependency facts    *)
(* unchanged, whatever else is wrong with the declaration.                 *)
C4_SkippedLeavesState ==
    [][(VisitorCalled /\ FailsGate(last'.op, last'.d.item))
           => (last'.res.ok /\ outputs' = outputs /\ decls' = decls /\ deps' = deps)]_vars

\* a generic, diverging function of a foreign calling convention was skipped
\* when Outputs and the facts were not empty
C4_Witness ==
    /\ last.op = "parse_fn" /\ last.d = SkipAbi /\ last.res.ok
    /\ DOMAIN outputs # {} /\ DOMAIN deps # {}

(* C5 as claimed: an entry of the registry, once recorded, is never        *)
(* changed or removed.                                                     *)
C5_WriteOnce ==
    [][\A n \in DOMAIN decls : n \in DOMAIN decls' /\ decls'[n] = decls[n]]_vars

\* the step appended an alias or a struct
TypeAppended ==
    /\ VisitorCalled /\ last'.op \in {"parse_ty", "parse_struct"}
    /\ last'.res.ok /\ outputs' # outputs

(* C5 as amended: no entry of the registry is ever removed; an entry       *)
(* changes only in a call that appends an alias or struct of that name,    *)
(* and after every such call the name maps to the header of that           *)
(* declaration (a later declaration of the name replaces the entry).       *)
C5_ReplacedOnlyBySameName ==
    [][/\ \A n \in DOMAIN decls :
             /\ n \in DOMAIN decls'
             /\ decls'[n] # decls[n] => (TypeAppended /\ last'.d.item.ident = n)
       /\ TypeAppended =>
             /\ last'.d.item.ident \in DOMAIN decls'
             /\ decls'[last'.d.item.ident] = HeaderOf(last'.d)]_vars

\* the name T was recorded for one header and now maps to another
C5_Witness ==
    /\ last.op = "parse_ty" /\ last.d = AliasT /\ last.res.ok
    /\ \E e \in emitted : e.name = "T" /\ e.kind = "struct" /\ e.header # decls["T"]

\* the two runs have processed the same declarations
SameDeclarations == Range(runA.done) = Range(runB.done)

RunEdges(run) == ResolvedEdges(run.self, run.outputs)

(* C6 as claimed: two runs over the same declarations, in any two orders,  *)
(* end with the same header ids, the same registry and the same resolved   *)
(* edges.                                                                  *)
C6_OrderIndependent ==
    SameDeclarations =>
        /\ DOMAIN runA.outputs = DOMAIN runB.outputs
        /\ runA.self.decls = runB.self.decls
        /\ RunEdges(runA) = RunEdges(runB)

\* no type name was appended as an alias or struct to two different headers
NamesDefinedOnce(run) ==
    \A x \in run.emitted, y \in run.emitted :
        (x.kind \in {"alias", "struct"} /\ y.kind \in {"alias", "struct"} /\ x.name = y.name)
            => x.header = y.header

(* C6 as amended: two runs over the same declarations end with the same    *)
(* header ids; when no type name is defined (alias or struct) in two       *)
(* different headers they also end with the same registry and the same     *)
(* resolved edges, so that both have a cycle or neither has.               *)
C6_OrderIndependentWhenNamesDefinedOnce ==
    SameDeclarations =>
        /\ DOMAIN runA.outputs = DOMAIN runB.outputs
        /\ NamesDefinedOnce(runA) =>
              /\ runA.self.decls = runB.self.decls
              /\ RunEdges(runA) = RunEdges(runB)
              /\ CycleIn(DOMAIN runA.outputs, RunEdges(runA))
                     <=> CycleIn(DOMAIN runB.outputs, RunEdges(runB))

\* two orders of three declarations, two of them referencing from one header
C6_Witness ==
    /\ Range(runA.done) = {StructT, StructS, StructV}
    /\ SameDeclarations /\ runA.done # runB.done
    /\ RunEdges(runA) # {}

\* header_name as the claim reads: replace the sentinel, then append the
\* library name to any path of one segment
ClaimedHeader(module, lib) ==
    LET replaced == IF module[1] = <<"f", "f", "i">> THEN <<lib>> \o Tail(module) ELSE module
        pushed == IF Len(replaced) = 1 THEN Append(replaced, lib) ELSE replaced
    IN JoinChars(pushed, <<"/">>) \o <<".", "h">>

IdentifierChars ==
    {"a", "b", "c", "d", "e", "f", "g", "h", "i", "j", "k", "l", "m",
     "n", "o", "p", "q", "r", "s", "t", "u", "v", "w", "x", "y", "z",
     "A", "B", "C", "D", "E", "F", "G", "H", "I", "J", "K", "L", "M",
     "N", "O", "P", "Q", "R", "S", "T", "U", "V", "W", "X", "Y", "Z",
     "0", "1", "2", "3", "4", "5", "6", "7", "8", "9", "_"}

\* the characters of s that are in keep, in their order
RECURSIVE Keep(_, _)
Keep(s, keep) ==
    IF s = <<>> THEN <<>>
    ELSE IF Head(s) \in keep THEN <<Head(s)>> \o Keep(Tail(s), keep)
    ELSE Keep(Tail(s), keep)

\* a header has only a few blank pieces between its lines
IsBlank(piece) == piece \in {"\n", "\n ", "\n\n"}
NonBlank(text) == SelectSeq(text, LAMBDA piece : ~IsBlank(piece))

IfndefLine(h) == "#ifndef bindgen_" \o Cat(Keep(h, IdentifierChars)) \o "\n"
DefineLine(h) == "#define bindgen_" \o Cat(Keep(h, IdentifierChars)) \o "\n"

\* the headers that finalise_output wraps, the top-level header apart
ModuleHeaders == (DOMAIN outputs) \ {UmbrellaId(Self)}

(* C8 as claimed: finalise_output makes the text of every per-module       *)
(* header the guard opening, the two fixed includes, the extern "C"        *)
(* opening, the accumulated declarations, the extern "C" closing and the   *)
(* #endif, in this order, with nothing before the #ifndef line.            *)
C8_LayoutAsClaimed ==
    [][FinaliseCalled =>
           \A h \in ModuleHeaders :
               /\ outputs'[h][1] = IfndefLine(h)
               /\ NonBlank(outputs'[h]) =
                      <<IfndefLine(h), DefineLine(h),
                        "#include <stdint.h>\n", "#include <stdbool.h>\n",
                        "#ifdef __cplusplus\nextern \"C\" {\n#endif\n">>
                      \o NonBlank(outputs[h])
                      \o <<"#ifdef __cplusplus\n}\n#endif\n", "#endif\n">>]_vars

(* C8 as amended: finalise_output makes the text of every per-module       *)
(* header, in this order: a newline, the guard opening (#ifndef, #define), *)
(* the extern "C" opening, the two fixed includes, the accumulated         *)
(* declarations, the extern "C" closing and the #endif; the fixed includes *)
(* stand inside the extern "C" block and a newline precedes #ifndef.       *)
C8_Layout ==
    [][FinaliseCalled =>
           \A h \in ModuleHeaders :
               outputs'[h] =
                   <<"\n", IfndefLine(h), DefineLine(h), "\n ",
                     "\n", "#ifdef __cplusplus\nextern \"C\" {\n#endif\n", "\n",
                     "#include <stdint.h>\n", "#include <stdbool.h>\n", "\n">>
                   \o outputs[h]
                   \o <<"\n\n", "#ifdef __cplusplus\n}\n#endif\n", "\n\n", "#endif\n">>]_vars

\* a finalised header with two declarations
C8_Witness ==
    /\ finalised
    /\ \E h \in ModuleHeaders :
          /\ Len(outputs[h]) = 16
          /\ outputs[h][9] = "#include <stdbool.h>\n"

\* the text lists each of the headers once and holds nothing else
OneIncludeEach(text, headers) ==
    /\ Len(text) = Cardinality(headers)
    /\ \A h \in headers : \E i \in DOMAIN text : text[i] = IncludeOf(h)

(* C9: when no cycle runs through the cross-header references,             *)
(* finalise_output returns Ok and the top-level header holds exactly one   *)
(* include line for each key Outputs had, and nothing else: duplicate      *)
(* facts, facts of a header about its own names and facts about unknown    *)
(* names change nothing.                                                   *)
C9_OneIncludePerHeader ==
    [][(FinaliseCalled /\ ~CycleIn(DOMAIN outputs, CrossRefs(decls, deps, DOMAIN outputs)))
           => /\ last'.res.ok
              /\ UmbrellaId(Self) \in DOMAIN outputs'
              /\ OneIncludeEach(outputs'[UmbrellaId(Self)], DOMAIN outputs)]_vars

\* finalised with a fact of a header about its own name, a fact about an
\* unknown name and a fact recorded twice that resolves to another header
C9_Witness ==
    /\ finalised /\ last.res.ok
    /\ \E h \in DOMAIN deps : \E n \in Range(deps[h]) : n \in DOMAIN decls /\ decls[n] = h
    /\ \E h \in DOMAIN deps : \E n \in Range(deps[h]) : n \notin DOMAIN decls
    /\ \E h \in DOMAIN deps : \E i, j \in DOMAIN deps[h] :
          /\ i # j /\ deps[h][i] = deps[h][j]
          /\ deps[h][i] \in DOMAIN decls /\ decls[deps[h][i]] # h

(* C10: sanitise_id keeps exactly the characters of [A-Za-z0-9_], in their *)
(* order; sanitising its result changes nothing; the empty identifier      *)
(* gives the empty identifier and filename.h gives filenameh.              *)
C10_SanitiseId ==
    /\ pc \in {"returned", "again"} =>
          /\ fn_out = Keep(fn_in, IdentifierChars)
          /\ fn_in = <<>> => fn_out = <<>>
          /\ fn_in = filename_h => fn_out = <<"f", "i", "l", "e", "n", "a", "m", "e", "h">>
    /\ pc = "again" => fn_out2 = fn_out

\* filename.h was sanitised, and its result again
C10_Witness ==
    /\ pc = "again" /\ fn_in = filename_h
    /\ fn_out2 = <<"f", "i", "l", "e", "n", "a", "m", "e", "h">>

-----------------------------------------------------------------------------
(* Pointers *)

\* the mutabilities of a pointer chain, outermost first, and the type under it
RECURSIVE Levels(_), ChainBase(_)
Levels(ty) == IF ty.node = "Ptr" THEN <<ty.mutbl>> \o Levels(ty.ty) ELSE <<>>
ChainBase(ty) == IF ty.node = "Ptr" THEN ChainBase(ty.ty) ELSE ty

\* one qualifier per level, written from the innermost level to the outermost
RECURSIVE Qualifiers(_)
Qualifiers(levels) ==
    IF levels = <<>> THEN ""
    ELSE Qualifiers(Tail(levels)) \o (IF Head(levels) = "Immutable" THEN " const*" ELSE "*")

\* the text K of the type under the chain
BaseText(ty) == DisplayCType(anon_rust_to_c(ChainBase(ty)).v)

\* C11: a pointer chain over a base rendered K renders as K followed by one
\* qualifier per level, innermost level first, " const*" for an immutable
\* level and "*" for a mutable one, and with a name as that text, a space and
\* the name
C11_PointerChain ==
    fn_in.ty \in PointerChains =>
        /\ pc \in {"anon", "named"} =>
              /\ fn_out.res.ok
              /\ fn_out.text = BaseText(fn_in.ty) \o Qualifiers(Levels(fn_in.ty))
        /\ pc = "named" =>
              /\ fn_out2.res.ok
              /\ fn_out2.text = BaseText(fn_in.ty) \o Qualifiers(Levels(fn_in.ty))
                                    \o " " \o fn_in.name

\* *const *mut *const bool has been translated, to "bool const** const*"
C11_Witness ==
    /\ pc = "named"
    /\ fn_in.ty = TyPtr("Immutable", TyPtr("Mutable", TyPtr("Immutable", TyPath(<<"bool">>))))
    /\ fn_out.text = "bool const** const*"
    /\ fn_out2.text = "bool const** const* " \o fn_in.name

-----------------------------------------------------------------------------
(* Names *)

\* the primitive table as the documentation states it: name, C keyword
PrimitiveKeyword ==
    [n \in {"i8", "i16", "i32", "i64", "u8", "u16", "u32", "u64", "isize", "usize",
            "f32", "f64", "bool"} |->
        CASE n = "i8" -> "int8_t" [] n = "i16" -> "int16_t" [] n = "i32" -> "int32_t"
          [] n = "i64" -> "int64_t" [] n = "u8" -> "uint8_t" [] n = "u16" -> "uint16_t"
          [] n = "u32" -> "uint32_t" [] n = "u64" -> "uint64_t" [] n = "isize" -> "intptr_t"
          [] n = "usize" -> "uintptr_t" [] n = "f32" -> "float" [] n = "f64" -> "double"
          [] n = "bool" -> "bool"]

\* the table of the foreign-primitive modules: name, C keyword
ForeignKeyword ==
    [n \in {"c_void", "c_float", "c_double", "c_char", "c_schar", "c_uchar", "c_short",
            "c_ushort", "c_int", "c_uint", "c_long", "c_ulong", "c_longlong",
            "c_ulonglong"} |->
        CASE n = "c_void" -> "void" [] n = "c_float" -> "float" [] n = "c_double" -> "double"
          [] n = "c_char" -> "char" [] n = "c_schar" -> "signed char"
          [] n = "c_uchar" -> "unsigned char" [] n = "c_short" -> "short"
          [] n = "c_ushort" -> "unsigned short" [] n = "c_int" -> "int"
          [] n = "c_uint" -> "unsigned int" [] n = "c_long" -> "long"
          [] n = "c_ulong" -> "unsigned long" [] n = "c_longlong" -> "long long"
          [] n = "c_ulonglong" -> "unsigned long long"]

\* both translations of the input have returned
Translated == pc = "named"

\* the input is translated to the keyword k: a Void or Native of that text
IsKeyword(k) ==
    /\ fn_out.res.ok /\ fn_out.res.v.t \in {"Void", "Native"} /\ fn_out.text = k
    /\ fn_out2.res.ok /\ fn_out2.text = k \o " " \o fn_in.name

\* the input passes through as Mapping(n)
IsMapping(n) ==
    /\ fn_out.res = Ok(Mapping(n)) /\ fn_out.text = n
    /\ fn_out2.res = Ok(CTypeNamed(fn_in.name, Mapping(n)))
    /\ fn_out2.text = n \o " " \o fn_in.name

\* the primitives and the unit type are translated to their keywords
PrimitivesAreKeywords ==
    /\ (fn_in.ty.node = "Path" /\ Len(fn_in.ty.segments) = 1
        /\ fn_in.ty.segments[1] \in DOMAIN PrimitiveKeyword)
           => IsKeyword(PrimitiveKeyword[fn_in.ty.segments[1]])
    /\ fn_in.ty = Unit => IsKeyword("void")

\* C12 as stated: a primitive name maps to its keyword, rendered "K" and
\* "K N"; every other unqualified name passes through as Mapping(name)
C12_OtherNamesPassThrough ==
    Translated =>
        /\ PrimitivesAreKeywords
        /\ (fn_in.ty.node = "Path" /\ Len(fn_in.ty.segments) = 1
            /\ fn_in.ty.segments[1] \notin DOMAIN PrimitiveKeyword)
               => IsMapping(fn_in.ty.segments[1])

\* C12: a primitive name maps to its keyword, rendered "K" and "K N"; an
\* unqualified name of libc's table maps to libc's keyword for it; every
\* unqualified name in neither table passes through as Mapping(name)
C12_UnqualifiedNames ==
    Translated =>
        /\ PrimitivesAreKeywords
        /\ (fn_in.ty.node = "Path" /\ Len(fn_in.ty.segments) = 1
            /\ fn_in.ty.segments[1] \notin DOMAIN PrimitiveKeyword)
               => IF fn_in.ty.segments[1] \in DOMAIN ForeignKeyword
                  THEN IsKeyword(ForeignKeyword[fn_in.ty.segments[1]])
                  ELSE IsMapping(fn_in.ty.segments[1])

\* the unqualified name c_int has been translated, to int
C12_Witness ==
    /\ Translated
    /\ fn_in.ty = TyPath(<<"c_int">>)
    /\ fn_out.res = Ok(Native("int"))
    /\ fn_out2.text = "int " \o fn_in.name

\* the module prefix and the name of a qualified path
PrefixOf(ty) == SubSeq(ty.segments, 1, Len(ty.segments) - 1)
NameOf(ty) == ty.segments[Len(ty.segments)]

\* both translations are rejected with an error
IsRejected ==
    /\ ~fn_out.res.ok /\ fn_out.res.level = "Error"
    /\ ~fn_out2.res.ok /\ fn_out2.res.level = "Error"

\* C13: a qualified path is translated only when its module prefix is libc or
\* std::os::raw: a name of the module's table to its keyword, any other name
\* to Mapping(name); a path with any other prefix is rejected with an error
C13_QualifiedPaths ==
    (Translated /\ fn_in.ty.node = "Path" /\ Len(fn_in.ty.segments) > 1) =>
        IF PrefixOf(fn_in.ty) \in {<<"libc">>, <<"std", "os", "raw">>}
        THEN IF NameOf(fn_in.ty) \in DOMAIN ForeignKeyword
             THEN IsKeyword(ForeignKeyword[NameOf(fn_in.ty)])
             ELSE IsMapping(NameOf(fn_in.ty))
        ELSE IsRejected

\* std::os::c_int has been rejected, and std::os::raw::c_int translated
C13_Witness ==
    /\ Translated
    /\ \/ fn_in.ty = TyPath(<<"std", "os", "c_int">>) /\ ~fn_out.res.ok
       \/ fn_in.ty = TyPath(<<"std", "os", "raw", "c_int">>) /\ fn_out.text = "int"

-----------------------------------------------------------------------------
(* Diverging return types *)

\* the last call was the visitor of its declaration's kind
Visited ==
    /\ last.op \in ParseOps
    /\ last.op = (CASE last.d.item.node = "Ty" -> "parse_ty"
                    [] last.d.item.node = "Enum" -> "parse_enum"
                    [] last.d.item.node = "Struct" -> "parse_struct"
                    [] last.d.item.node = "Fn" -> "parse_fn")

\* a function-pointer type with a diverging return type occurs in the type
RECURSIVE HasDivergingFnPtr(_)
HasDivergingFnPtr(ty) ==
    CASE ty.node = "BareFn" ->
            \/ ty.output.ret = "Ty" /\ ty.output.ty.node = "Never"
            \/ ty.output.ret = "Ty" /\ HasDivergingFnPtr(ty.output.ty)
            \/ \E i \in DOMAIN ty.inputs : HasDivergingFnPtr(ty.inputs[i].ty)
      [] ty.node \in {"Ptr", "Array", "Rptr"} -> HasDivergingFnPtr(ty.ty)
      [] ty.node = "Tup" -> \E i \in DOMAIN ty.elems : HasDivergingFnPtr(ty.elems[i])
      [] OTHER -> FALSE

\* the function's own return type is diverging
DivergingFn(item) ==
    item.node = "Fn" /\ item.output.ret = "Ty" /\ item.output.ty.node = "Never"

\* the types of a declaration: alias target, fields, parameters, return type
TypesIn(item) ==
    CASE item.node = "Ty" -> {item.ty}
      [] item.node = "Struct" -> {item.fields[i].ty : i \in DOMAIN item.fields}
      [] item.node = "Fn" ->
            {item.inputs[i].ty : i \in DOMAIN item.inputs}
            \cup (IF item.output.ret = "Ty" THEN {item.output.ty} ELSE {})
      [] OTHER -> {}

\* the types of a declaration that its visitor translates: not the field of
\* a positional struct
TranslatedTypesIn(item) ==
    IF item.node = "Struct" /\ item.data # "Struct" THEN {} ELSE TypesIn(item)

\* the last call returned a structured error
LastRejected == ~last.res.ok /\ last.res.level = "Error"

-----------------------------------------------------------------------------
(* The text of a function *)

\* the text appended by the last call
LastText == outputs[HeaderOf(last.d)][Len(outputs[HeaderOf(last.d)])]

\* the C text of a type that is not a function pointer
TypeText(ty) == DisplayCType(anon_rust_to_c(ty).v)

\* a parameter: the type and the name, or the bare type when it has no name
ParamText(arg) ==
    IF arg.pat = "" THEN TypeText(arg.ty) ELSE TypeText(arg.ty) \o " " \o arg.pat

\* a parameter list, "void" when empty
ParamsText(inputs) ==
    IF inputs = <<>> THEN "void"
    ELSE JoinStr([i \in DOMAIN inputs |-> ParamText(inputs[i])], ", ")

\* "<ret> <name>(<params>);", and with a function pointer as return type
\* "<R> (*<name>(<params>))(<fp-params>);"
FunctionText(item) ==
    IF item.output.ret = "Default"
    THEN "void " \o item.ident \o "(" \o ParamsText(item.inputs) \o ")" \o ";"
    ELSE IF item.output.ty.node = "BareFn"
    THEN (IF item.output.ty.output.ret = "Default" THEN "void"
          ELSE TypeText(item.output.ty.output.ty))
         \o " (*" \o item.ident \o "(" \o ParamsText(item.inputs) \o "))("
         \o ParamsText(item.output.ty.inputs) \o ");"
    ELSE TypeText(item.output.ty) \o " " \o item.ident \o "("
         \o ParamsText(item.inputs) \o ")" \o ";"

\* C15: an exported function is appended as "<ret> <name>(<params>);", an
\* empty parameter list being "void"; with a function pointer as return type
\* as "<R> (*<name>(<params>))(<fp-params>);", a function-pointer parameter
\* without a name being the bare type
C15_FunctionText ==
    (last.op = "parse_fn" /\ last.res.ok /\ ~FailsGate(last.op, last.d.item))
        => LastText = FunctionText(last.d.item) \o "\n\n"

-----------------------------------------------------------------------------
(* Structs *)

\* the lines of the fields, in declared order
FieldLines(fields) ==
    JoinStr([i \in DOMAIN fields |->
                "\t" \o DisplayNamed(rust_to_c(fields[i].ty, fields[i].ident).v) \o ";\n"], "")

\* every field type can be translated
FieldsTranslate(fields) ==
    \A i \in DOMAIN fields : rust_to_c(fields[i].ty, fields[i].ident).ok

-----------------------------------------------------------------------------
(* Dependency facts *)

\* the fact (header, name) is among the pending dependency facts
Pending(header, name) == header \in DOMAIN deps /\ name \in Range(deps[header])

\* C17: every Mapping name in the translated types of an appended
\* declaration, of whatever kind, is recorded as a pending dependency fact
\* of the declaration's header
C17_MappingsRecorded ==
    \A e \in emitted : \A n \in e.refs : Pending(e.header, n)

\* C18: the header id that header_name computes for a module path and a
\* library name L is not the id L.h of the top-level header
C18_HeaderIdNotUmbrella ==
    pc = "returned" => fn_out # fn_in.lib_name \o DotH

\* C19: a visitor call that returns a structured error leaves the pending
\* dependency facts as they were
C19_RejectionLeavesFacts ==
    [][(VisitorCalled /\ ~last'.res.ok /\ last'.res.level = "Error") => deps' = deps]_vars


====
